---- MODULE Spec2Model ----
(***************************************************************************)
(* Model of the monk-run package runner:                                   *)
(*   packages/runner/usr/src/utils.ts  (processSpawn, executePackageCommand,*)
(*                                      runPackageCommand)                  *)
(*   packages/runner/usr/src/cli.ts    (the command line entry point)       *)
(*                                                                          *)
(* A work item is a manifest file (package.json path).  Files are numbered  *)
(* 1..n in the order of the `packages` argument; the manifest of file f     *)
(* carries the package name AllNames[f] and a set of runtime dependency     *)
(* names (the keys of `dependencies` whose value is truthy) and a set of    *)
(* development dependency names (`devDependencies`); `readable` tells       *)
(* whether the file can be read and parsed.  JavaScript arrays are          *)
(* sequences; indexOf and splice keep their 0-based / negative index        *)
(* semantics.  A string value of --uncheck is the sequence of its           *)
(* characters; package names are one character long.                        *)
(***************************************************************************)
EXTENDS Integers, Sequences, FiniteSets, TLC

\* ------------------------------------------------------------------ bounds
MaxPkgs == 3
MaxCpus == 5
MaxDevDeps == 1
MaxChars == 3

AllNames == <<"A", "B", "C", "D", "E">>

Files == 1..MaxPkgs
Names == {AllNames[i] : i \in 1..MaxPkgs}

VARIABLES
    manifest,       \* file -> [name, dependencies, devDependencies, readable,
                    \*          hasDependencies (the optional field is there)]
    packages,       \* the `packages` argument: sequence of files
    env,            \* the `env` argument: [uncheck |-> ...]
    pc,             \* position of the driver (cli.ts + runPackageCommand)
    maxThreads,     \* const maxThreads
    processedFiles, \* let processedFiles
    packagesCopy,   \* const packagesCopy (mutated by splice)
    files,          \* const files: file -> package name
    deps,           \* const deps: package name -> array of unresolved names
    uncheck,        \* let uncheck: [all |-> BOOLEAN, list |-> array of names]
    errors,         \* const errors: array of failure records (the failing file)
    emptyPackages,  \* const emptyPackages of the current round
    chunks,         \* const chunks of the current round
    chunk,          \* const chunk being awaited
    retireIdx,      \* position of `for (const file of emptyPackages)` (from 1)
    status,         \* file -> "idle" | "running" | "ok" | "failed"
    round,          \* number of do-while iterations begun
    wave,           \* file -> round in which it was dispatched (0: never)
    result,         \* value returned by runPackageCommand
    residual,       \* names printed by the deadlock message
    exitCode,       \* exit code of the CLI process (-1: still running)
    cpus,           \* cpus().length: logical CPU count of the host
    cwd,            \* working directory of the runner process
    spawns          \* file -> options of the spawn call made for it

vars == <<manifest, packages, env, pc, maxThreads, processedFiles, packagesCopy,
          files, deps, uncheck, errors, emptyPackages, chunks, chunk, retireIdx,
          status, round, wave, result, residual, exitCode, cpus, cwd, spawns>>

\* ---------------------------------------------------------- JS array helpers
Range(s) == {s[i] : i \in 1..Len(s)}

Includes(s, x) == x \in Range(s)

\* Array.prototype.indexOf: 0-based index of the first occurrence, -1 if absent
IndexOf(s, x) ==
    IF Includes(s, x)
    THEN (CHOOSE i \in 1..Len(s) : s[i] = x /\ \A j \in 1..(i - 1) : s[j] # x) - 1
    ELSE -1

\* Array.prototype.splice(start, 1): a negative start counts from the end
SpliceStart(s, start) ==
    IF start < 0
    THEN (IF Len(s) + start < 0 THEN 0 ELSE Len(s) + start)
    ELSE (IF start > Len(s) THEN Len(s) ELSE start)

SpliceOne(s, start) ==
    LET k == SpliceStart(s, start) + 1
    IN  IF k > Len(s) THEN s
        ELSE [i \in 1..(Len(s) - 1) |-> IF i < k THEN s[i] ELSE s[i + 1]]

\* Array.prototype.splice(0, n): <<removed, rest>>
Min(a, b) == IF a < b THEN a ELSE b

\* mutant: the chunk takes one item less than asked (at least one)
SpliceHeadOneLess(s, n) ==
    <<SubSeq(s, 1, Min(n - 1, Len(s))), SubSeq(s, Min(n - 1, Len(s)) + 1, Len(s))>>

\* mutant: the chunk takes one item more than asked
SpliceHeadOneMore(s, n) ==
    <<SubSeq(s, 1, Min(n + 1, Len(s))), SubSeq(s, Min(n + 1, Len(s)) + 1, Len(s))>>

SpliceHead(s, n) ==
    <<SubSeq(s, 1, Min(n, Len(s))), SubSeq(s, Min(n, Len(s)) + 1, Len(s))>>

\* ------------------------------------------------------------ pure functions
\* mutant: halves round down
RoundHalfDown(c) == c \div 2

\* Math.round(x / 2) for an integer x >= 0: halves round up
RoundHalf(c) == (c + 1) \div 2

\* const maxThreads = Math.max(Math.round(cpus().length / 2), 2)
MaxThreads(c) == IF RoundHalf(c) > 2 THEN RoundHalf(c) ELSE 2

\* values of env.uncheck: absent, boolean true, another value that is not a
\* string (boolean false, a number), or a string given by its characters
UncheckAbsent == [kind |-> "absent", chars |-> <<>>]
UncheckTrue == [kind |-> "true", chars |-> <<>>]
UncheckOther == [kind |-> "other", chars |-> <<>>]
UncheckString(chars) == [kind |-> "string", chars |-> chars]

\* String.prototype.split(','), from position i on: cur is the part being
\* read and acc the parts already closed
RECURSIVE SplitFrom(_, _, _, _)
SplitFrom(chars, i, cur, acc) ==
    IF i > Len(chars) THEN Append(acc, cur)
    ELSE IF chars[i] = ","
         THEN SplitFrom(chars, i + 1, "", Append(acc, cur))
         ELSE SplitFrom(chars, i + 1, cur \o chars[i], acc)

Split(chars) == SplitFrom(chars, 1, "", <<>>)

\* mutant: a '*' among the parts of a list exempts everything too
ProcessUncheckStarInList(u) ==
    IF u.kind = "true" \/ (u.kind = "string" /\ Includes(Split(u.chars), "*"))
    THEN [all |-> TRUE, list |-> <<>>]
    ELSE IF u.kind = "string"
         THEN [all |-> FALSE, list |-> Split(u.chars)]
         ELSE [all |-> FALSE, list |-> <<>>]

\* `let uncheck = []` and the "Process uncheck package list" branches
ProcessUncheck(u) ==
    IF u.kind = "true" \/ (u.kind = "string" /\ u.chars = <<"*">>)
    THEN [all |-> TRUE, list |-> <<>>]
    ELSE IF u.kind = "string"
         THEN [all |-> FALSE, list |-> Split(u.chars)]
         ELSE [all |-> FALSE, list |-> <<>>]

\* JSON.parse(fs.readFileSync(file, 'utf-8')) returns (TRUE) or throws (FALSE)
Readable(mf, file) == mf[file].readable

\* mutant: the scan skips a manifest it cannot read
ScanNeverThrows(mf, pk) == FALSE

\* the scan reads every manifest of packagesCopy, outside any try block
ScanThrows(mf, pk) == \E f \in Range(pk) : ~Readable(mf, f)

\* packageInfo.dependencies[currentPackageInfo.name] on a manifest without
\* the optional `dependencies` field reads a property of undefined: a
\* TypeError, unless the test of the exemption list before it is false
ScanTypeError(mf, unchk, pk) ==
    \E f \in Range(pk) :
        ~mf[f].hasDependencies /\ ~Includes(unchk.list, mf[f].name)

\* path.dirname(file): the directory of a manifest file, named by the file
Dir(file) == file

\* the directory the runner was started in
StartDir == 0

\* options of processSpawn: {cwd: path.resolve(buildDirectory), shell: true}
SpawnOptions(file) == [cwd |-> Dir(file), shell |-> TRUE]

\* deps[name] ??= []
EnsureKey(d, name) ==
    [k \in (DOMAIN d) \cup {name} |-> IF k \in DOMAIN d THEN d[k] ELSE <<>>]

\* mutant: the exemption tests the dependency instead of the dependent
EdgeCondExemptsDependency(unchk, packageInfo, currentPackageInfo, d) ==
    /\ ~Includes(unchk.list, currentPackageInfo.name)
    /\ currentPackageInfo.name \in packageInfo.dependencies
    /\ ~Includes(d[packageInfo.name], currentPackageInfo.name)

\* mutant: devDependencies create edges as well
EdgeCondWithDevDependencies(unchk, packageInfo, currentPackageInfo, d) ==
    /\ ~Includes(unchk.list, packageInfo.name)
    /\ \/ currentPackageInfo.name \in packageInfo.dependencies
       \/ currentPackageInfo.name \in packageInfo.devDependencies
    /\ ~Includes(d[packageInfo.name], currentPackageInfo.name)

\* mutant: the exemption list is not consulted
EdgeCondNoExemption(unchk, packageInfo, currentPackageInfo, d) ==
    /\ currentPackageInfo.name \in packageInfo.dependencies
    /\ ~Includes(d[packageInfo.name], currentPackageInfo.name)

\* the condition guarding deps[packageInfo.name].push(currentPackageInfo.name)
EdgeCond(unchk, packageInfo, currentPackageInfo, d) ==
    /\ ~Includes(unchk.list, packageInfo.name)
    /\ currentPackageInfo.name \in packageInfo.dependencies
    /\ ~Includes(d[packageInfo.name], currentPackageInfo.name)

\* the only element of a one-element set
The(S) == CHOOSE x \in S : TRUE

\* body of the inner loop for one (currentPackageInfo, packageInfo) pair:
\*   deps[packageInfo.name] ??= []; if (EdgeCond) deps[...].push(...)
\* (d0 and d1 name the map before and after the `??=`)
ScanPair(unchk, packageInfo, currentPackageInfo, d) ==
    The({IF EdgeCond(unchk, packageInfo, currentPackageInfo, d1)
         THEN [d1 EXCEPT ![packageInfo.name] = Append(@, currentPackageInfo.name)]
         ELSE d1 :
            d1 \in {EnsureKey(d0, packageInfo.name) : d0 \in {d}}})

\* inner loop `for (const file of packagesCopy)` from position j
RECURSIVE ScanInner(_, _, _, _, _, _)
ScanInner(mf, unchk, pk, currentPackageInfo, d, j) ==
    IF j > Len(pk) THEN d
    ELSE ScanInner(mf, unchk, pk, currentPackageInfo,
                   ScanPair(unchk, mf[pk[j]], currentPackageInfo, d), j + 1)

\* mutant: every declared name is an edge, in the universe or not
ScanDepsAllDeclared(mf, unchk, pk, d, i) ==
    [k \in {mf[f].name : f \in Range(pk)} |->
        IF Includes(unchk.list, k) THEN <<>>
        ELSE SelectSeq(AllNames, LAMBDA nm :
                \E f \in Range(pk) : mf[f].name = k /\ nm \in mf[f].dependencies)]

\* outer loop `for (const currentFile of packagesCopy)` from position i
RECURSIVE ScanDeps(_, _, _, _, _)
ScanDeps(mf, unchk, pk, d, i) ==
    IF i > Len(pk) THEN d
    ELSE ScanDeps(mf, unchk, pk, ScanInner(mf, unchk, pk, mf[pk[i]], d, 1), i + 1)

\* files[currentFile] = currentPackageInfo.name for every scanned file
ScanFiles(mf, pk) == [f \in Range(pk) |-> mf[f].name]

\* mutant: the frontier is every remaining package, whatever its list
EmptyPackagesUnfiltered(unchk, pk, fl, d) == pk

\* mutant: the frontier is filtered by the graph in every mode
EmptyPackagesAlwaysFiltered(unchk, pk, fl, d) ==
    SelectSeq(pk, LAMBDA file :
        /\ file \in DOMAIN fl
        /\ fl[file] \in DOMAIN d
        /\ Len(d[fl[file]]) = 0)

\* mutant: a package with one unresolved dependency counts as ready
EmptyPackagesAtMostOne(unchk, pk, fl, d) ==
    IF ~unchk.all
    THEN SelectSeq(pk, LAMBDA file :
            /\ file \in DOMAIN fl
            /\ fl[file] \in DOMAIN d
            /\ Len(d[fl[file]]) <= 1)
    ELSE pk

\* emptyPackages: the ready frontier of a round
EmptyPackages(unchk, pk, fl, d) ==
    IF ~unchk.all
    THEN SelectSeq(pk, LAMBDA file :
            /\ file \in DOMAIN fl
            /\ fl[file] \in DOMAIN d
            /\ Len(d[fl[file]]) = 0)
    ELSE pk

\* mutant: the driver does not wait for the items of the chunk
AllSettledNotAwaited(ch, st) == TRUE

\* await Promise.allSettled(chunk.map(buildCommand)): every promise of the
\* chunk is fulfilled or rejected
AllSettled(ch, st) == \A f \in Range(ch) : st[f] \in {"ok", "failed"}

\* files[file]: a file that was never scanned has no alias (undefined)
FileName(fl, file) == IF file \in DOMAIN fl THEN fl[file] ELSE "undefined"

\* mutant: the deadlock test does not look at the remaining list
IsDeadlockWhenEmpty(empty, pk) == Len(empty) = 0

\* if (emptyPackages.length === 0 && packagesCopy.length > 0)
IsDeadlock(empty, pk) == Len(empty) = 0 /\ Len(pk) > 0

\* mutant: the retired key is deleted but its name is never struck
RemoveFromDepsKeyOnly(d, packageName) ==
    [dep \in (DOMAIN d) \ {packageName} |-> d[dep]]

\* mutant: the name is struck from every list but its own key is kept
RemoveFromDepsStrikeOnly(d, packageName) ==
    [dep \in DOMAIN d |->
        IF dep = packageName THEN d[dep]
        ELSE SpliceOne(d[dep], IndexOf(d[dep], packageName))]

\* delete deps[packageName]; then for every remaining key
\*   deps[dep].splice(deps[dep].indexOf(packageName), 1)
RemoveFromDeps(d, packageName) ==
    [dep \in (DOMAIN d) \ {packageName} |->
        SpliceOne(d[dep], IndexOf(d[dep], packageName))]

\* mutant: the loop body runs once
LoopConditionOnce(pk) == "finish"

\* } while (packagesCopy.length > 0)
LoopCondition(pk) == IF Len(pk) > 0 THEN "round" ELSE "finish"

\* where the driver goes once the chunk loop of a round is over: the retire
\* loop (then the loop condition), or the `break` of the exempt-all branch
AfterChunks(unchk, empty, pk) ==
    IF ~unchk.all
    THEN (IF Len(empty) > 0 THEN "retire" ELSE LoopCondition(pk))
    ELSE "finish"

\* values returned by runPackageCommand
NoResult == [kind |-> "pending", code |-> 0, errors |-> <<>>]
ResultFalse == [kind |-> "false", code |-> 0, errors |-> <<>>]
ResultCode(n) == [kind |-> "number", code |-> n, errors |-> <<>>]
ResultErrors(e) == [kind |-> "errors", code |-> 0, errors |-> e]
\* the promise of runPackageCommand rejects (an exception left the function)
ResultRejected == [kind |-> "rejected", code |-> 0, errors |-> <<>>]

\* mutant: the deadlock branch leaves the loop and reports the error list
DeadlockResultBreak(errs) ==
    IF Len(errs) > 0 THEN ResultErrors(errs) ELSE ResultFalse

\* `return 1` of the deadlock branch
DeadlockResult(errs) == ResultCode(1)

\* mutant: the final value reports the first failure only
FinalResultFirstOnly(errs) ==
    IF Len(errs) > 0 THEN ResultErrors(<<errs[1]>>) ELSE ResultFalse

\* if (errors.length > 0) return errors; ... return false
FinalResult(errs) == IF Len(errs) > 0 THEN ResultErrors(errs) ELSE ResultFalse

\* JavaScript truthiness of the returned value
Truthy(r) ==
    CASE r.kind = "false" -> FALSE
      [] r.kind = "number" -> r.code # 0
      [] OTHER -> TRUE

\* cli.ts: if (!await runPackageCommand(...)) process.exit(1); otherwise the
\* script ends and the process exits with code 0; a rejected promise makes
\* the top-level await throw and the process ends with code 1
CliExitCode(r) ==
    IF r.kind = "rejected" THEN 1
    ELSE IF ~Truthy(r) THEN 1 ELSE 0

\* ------------------------------------------------------------- initial state
\* the names of a set E in manifest order
NameList(E) == SelectSeq(SubSeq(AllNames, 1, MaxPkgs), LAMBDA x : x \in E)

\* the characters of the names of a list joined by commas, as typed after
\* --uncheck (every name of AllNames is one character)
CommaList(names) ==
    [i \in 1..(2 * Len(names) - 1) |->
        IF i % 2 = 1 THEN names[(i + 1) \div 2] ELSE ","]

UncheckValues ==
    {UncheckAbsent, UncheckTrue, UncheckString(<<"*">>)}
        \cup {UncheckString(CommaList(NameList(E))) : E \in (SUBSET Names) \ {{}}}

\* a universe of n manifests with unique names; each declares any set of
\* runtime dependencies (itself and names outside the universe included)
Manifests(n) ==
    {[f \in 1..n |-> [name |-> AllNames[f], dependencies |-> dd[f],
                      devDependencies |-> {}, readable |-> TRUE,
                      hasDependencies |-> TRUE]] :
        dd \in [1..n -> SUBSET Names]}

\* the same universes, each manifest also declaring up to MaxDevDeps
\* development dependencies
ManifestsDev(n) ==
    {[f \in 1..n |-> [name |-> AllNames[f], dependencies |-> dd[f],
                      devDependencies |-> dv[f], readable |-> TRUE,
                      hasDependencies |-> TRUE]] :
        dd \in [1..n -> SUBSET Names],
        dv \in [1..n -> {E \in SUBSET Names : Cardinality(E) <= MaxDevDeps}]}

\* two hosts: on one the floor of 2 threads applies, on the other half of the
\* CPU count
HostCpus == {2, MaxCpus}

\* the locals of runPackageCommand and the exit code before the call
InitLocals ==
    /\ pc = "start"
    /\ maxThreads = 0
    /\ processedFiles = 0
    /\ packagesCopy = <<>>
    /\ files = <<>>
    /\ deps = <<>>
    /\ uncheck = [all |-> FALSE, list |-> <<>>]
    /\ errors = <<>>
    /\ emptyPackages = <<>>
    /\ chunks = <<>>
    /\ chunk = <<>>
    /\ retireIdx = 0
    /\ round = 0
    /\ result = NoResult
    /\ residual = <<>>
    /\ exitCode = -1
    /\ cwd = StartDir
    /\ spawns = <<>>

Init ==
    /\ \E n \in 0..MaxPkgs :
          /\ packages = [i \in 1..n |-> i]
          /\ manifest \in Manifests(n)
          /\ status = [f \in 1..n |-> "idle"]
          /\ wave = [f \in 1..n |-> 0]
    /\ env \in {[uncheck |-> u] : u \in UncheckValues}
    /\ cpus \in HostCpus
    /\ InitLocals

\* the same universes, any of the manifest files unreadable or unparsable
ManifestsUnreadable(n) ==
    {[f \in 1..n |-> [m[f] EXCEPT !.readable = rd[f]]] :
        m \in Manifests(n), rd \in [1..n -> BOOLEAN]}

\* runs without --uncheck and runs with --uncheck=* over manifest files that
\* may be unreadable
InitUnreadable ==
    /\ \E n \in 0..MaxPkgs :
          /\ packages = [i \in 1..n |-> i]
          /\ manifest \in ManifestsUnreadable(n)
          /\ status = [f \in 1..n |-> "idle"]
          /\ wave = [f \in 1..n |-> 0]
    /\ env \in {[uncheck |-> UncheckAbsent], [uncheck |-> UncheckString(<<"*">>)]}
    /\ cpus \in HostCpus
    /\ InitLocals

\* universes in which a manifest may lack the `dependencies` field
ManifestsMissingField(n) ==
    {[f \in 1..n |->
        IF has[f] THEN m[f]
        ELSE [m[f] EXCEPT !.dependencies = {}, !.hasDependencies = FALSE]] :
        m \in Manifests(n), has \in [1..n -> BOOLEAN]}

\* runs with every value of --uncheck over such universes
InitMissingField ==
    /\ \E n \in 0..MaxPkgs :
          /\ packages = [i \in 1..n |-> i]
          /\ manifest \in ManifestsMissingField(n)
          /\ status = [f \in 1..n |-> "idle"]
          /\ wave = [f \in 1..n |-> 0]
    /\ env \in {[uncheck |-> u] : u \in UncheckValues}
    /\ cpus \in HostCpus
    /\ InitLocals

\* runs without --uncheck on hosts of every CPU count up to MaxCpus
InitCpus ==
    /\ \E n \in 0..MaxPkgs :
          /\ packages = [i \in 1..n |-> i]
          /\ manifest \in Manifests(n)
          /\ status = [f \in 1..n |-> "idle"]
          /\ wave = [f \in 1..n |-> 0]
    /\ env = [uncheck |-> UncheckAbsent]
    /\ cpus \in 0..MaxCpus
    /\ InitLocals

\* the characters a value of --uncheck is made of
Alphabet == {"A", "B", ",", "*"}

\* every value of env.uncheck: absent, true, a non-string, and every string
\* of at most MaxChars characters
ExemptionInputs ==
    {UncheckAbsent, UncheckTrue, UncheckOther}
        \cup {UncheckString(cs) : cs \in UNION {[1..k -> Alphabet] : k \in 0..MaxChars}}

\* the universe of n manifests in which every package depends on all the
\* packages before it
ChainManifests(n) ==
    {[f \in 1..n |-> [name |-> AllNames[f],
                      dependencies |-> {AllNames[g] : g \in 1..(f - 1)},
                      devDependencies |-> {}, readable |-> TRUE,
                      hasDependencies |-> TRUE]]}

\* runs over a chain of packages with every value of --uncheck
InitExemption ==
    /\ \E n \in 0..MaxPkgs :
          /\ packages = [i \in 1..n |-> i]
          /\ manifest \in ChainManifests(n)
          /\ status = [f \in 1..n |-> "idle"]
          /\ wave = [f \in 1..n |-> 0]
    /\ env \in {[uncheck |-> u] : u \in ExemptionInputs}
    /\ cpus \in HostCpus
    /\ InitLocals

\* runs without --uncheck over manifests that also declare devDependencies
InitDev ==
    /\ \E n \in 0..MaxPkgs :
          /\ packages = [i \in 1..n |-> i]
          /\ manifest \in ManifestsDev(n)
          /\ status = [f \in 1..n |-> "idle"]
          /\ wave = [f \in 1..n |-> 0]
    /\ env = [uncheck |-> UncheckAbsent]
    /\ cpus \in HostCpus
    /\ InitLocals

\* ------------------------------------------------------------------ actions
\* runPackageCommand up to the do-while loop: maxThreads, packagesCopy, the
\* uncheck list and the dependency scan; a manifest that cannot be read or
\* parsed makes the scan throw, which rejects the promise of the function
Start ==
    /\ pc = "start"
    /\ maxThreads' = MaxThreads(cpus)
    /\ packagesCopy' = packages
    /\ uncheck' = ProcessUncheck(env.uncheck)
    /\ IF /\ ~uncheck'.all
          /\ \/ ScanThrows(manifest, packages)
             \/ ScanTypeError(manifest, uncheck', packages)
       THEN /\ result' = ResultRejected
            /\ pc' = "returned"
            /\ UNCHANGED <<files, deps>>
       ELSE /\ IF ~uncheck'.all
               THEN /\ files' = ScanFiles(manifest, packages)
                    /\ deps' = ScanDeps(manifest, uncheck', packages, <<>>, 1)
               ELSE UNCHANGED <<files, deps>>
            /\ pc' = "round"
            /\ UNCHANGED result
    /\ UNCHANGED <<manifest, packages, env, processedFiles, errors, emptyPackages,
                   chunks, chunk, retireIdx, status, round, wave,
                   residual, exitCode, cpus, cwd, spawns>>

\* mutant: the deadlock message names the whole input list
BeginRoundReportsInput ==
    /\ pc = "round"
    /\ round' = round + 1
    /\ emptyPackages' = EmptyPackages(uncheck, packagesCopy, files, deps)
    /\ IF IsDeadlock(emptyPackages', packagesCopy)
       THEN /\ residual' = [i \in 1..Len(packages) |->
                                FileName(files, packages[i])]
            /\ result' = DeadlockResult(errors)
            /\ pc' = "returned"
            /\ UNCHANGED chunks
       ELSE /\ chunks' = emptyPackages'
            /\ pc' = IF Len(chunks') > 0 THEN "chunk"
                     ELSE AfterChunks(uncheck, emptyPackages', packagesCopy)
            /\ UNCHANGED <<residual, result>>
    /\ retireIdx' = 1
    /\ UNCHANGED <<manifest, packages, env, maxThreads, processedFiles,
                   packagesCopy, files, deps, uncheck, errors, chunk, status,
                   wave, exitCode, cpus, cwd, spawns>>

\* head of the do-while body: the frontier, the deadlock test, the chunk list
BeginRound ==
    /\ pc = "round"
    /\ round' = round + 1
    /\ emptyPackages' = EmptyPackages(uncheck, packagesCopy, files, deps)
    /\ IF IsDeadlock(emptyPackages', packagesCopy)
       THEN /\ residual' = [i \in 1..Len(packagesCopy) |->
                                FileName(files, packagesCopy[i])]
            /\ result' = DeadlockResult(errors)
            /\ pc' = "returned"
            /\ UNCHANGED chunks
       ELSE /\ chunks' = emptyPackages'
            /\ pc' = IF Len(chunks') > 0 THEN "chunk"
                     ELSE AfterChunks(uncheck, emptyPackages', packagesCopy)
            /\ UNCHANGED <<residual, result>>
    /\ retireIdx' = 1
    /\ UNCHANGED <<manifest, packages, env, maxThreads, processedFiles,
                   packagesCopy, files, deps, uncheck, errors, chunk, status,
                   wave, exitCode, cpus, cwd, spawns>>

\* mutant: the manifest of an item is read outside the try block, the
\* exception leaves chunk.map and rejects the run
StartChunkReadOutsideTry ==
    /\ pc = "chunk"
    /\ chunk' = SpliceHead(chunks, maxThreads)[1]
    /\ chunks' = SpliceHead(chunks, maxThreads)[2]
    /\ wave' = [f \in DOMAIN wave |->
                    IF f \in Range(chunk') THEN round ELSE wave[f]]
    /\ IF \E f \in Range(chunk') : ~Readable(manifest, f)
       THEN /\ result' = ResultRejected
            /\ pc' = "returned"
            /\ UNCHANGED <<status, spawns>>
       ELSE /\ status' = [f \in DOMAIN status |->
                            IF f \in Range(chunk') THEN "running" ELSE status[f]]
            /\ spawns' = [f \in (DOMAIN spawns) \cup Range(chunk') |->
                            IF f \in DOMAIN spawns THEN spawns[f]
                            ELSE SpawnOptions(f)]
            /\ pc' = "await"
            /\ UNCHANGED result
    /\ UNCHANGED <<manifest, packages, env, maxThreads, processedFiles,
                   packagesCopy, files, deps, uncheck, errors, emptyPackages,
                   retireIdx, round, residual, exitCode, cpus, cwd>>

\* mutant: every item changes the working directory of the process before
\* its spawn, and the command inherits it
StartChunkChdir ==
    /\ pc = "chunk"
    /\ chunk' = SpliceHead(chunks, maxThreads)[1]
    /\ chunks' = SpliceHead(chunks, maxThreads)[2]
    /\ status' = [f \in DOMAIN status |->
                    IF f \in Range(chunk')
                    THEN (IF Readable(manifest, f) THEN "running" ELSE "failed")
                    ELSE status[f]]
    /\ errors' = errors \o SelectSeq(chunk', LAMBDA f : ~Readable(manifest, f))
    /\ spawns' = [f \in (DOMAIN spawns) \cup
                         {g \in Range(chunk') : Readable(manifest, g)} |->
                    IF f \in DOMAIN spawns THEN spawns[f] ELSE SpawnOptions(f)]
    /\ cwd' = IF \E g \in Range(chunk') : Readable(manifest, g)
              THEN Dir(chunk'[CHOOSE i \in 1..Len(chunk') :
                        /\ Readable(manifest, chunk'[i])
                        /\ \A j \in (i + 1)..Len(chunk') :
                              ~Readable(manifest, chunk'[j])])
              ELSE cwd
    /\ wave' = [f \in DOMAIN wave |->
                    IF f \in Range(chunk') THEN round ELSE wave[f]]
    /\ pc' = "await"
    /\ UNCHANGED <<manifest, packages, env, maxThreads, processedFiles,
                   packagesCopy, files, deps, uncheck, emptyPackages,
                   retireIdx, round, result, residual, exitCode, cpus>>

\* mutant: the command is spawned before the manifest is read
StartChunkSpawnsBeforeRead ==
    /\ pc = "chunk"
    /\ chunk' = SpliceHead(chunks, maxThreads)[1]
    /\ chunks' = SpliceHead(chunks, maxThreads)[2]
    /\ status' = [f \in DOMAIN status |->
                    IF f \in Range(chunk')
                    THEN (IF Readable(manifest, f) THEN "running" ELSE "failed")
                    ELSE status[f]]
    /\ errors' = errors \o SelectSeq(chunk', LAMBDA f : ~Readable(manifest, f))
    /\ spawns' = [f \in (DOMAIN spawns) \cup Range(chunk') |->
                    IF f \in DOMAIN spawns THEN spawns[f] ELSE SpawnOptions(f)]
    /\ wave' = [f \in DOMAIN wave |->
                    IF f \in Range(chunk') THEN round ELSE wave[f]]
    /\ pc' = "await"
    /\ UNCHANGED <<manifest, packages, env, maxThreads, processedFiles,
                   packagesCopy, files, deps, uncheck, emptyPackages,
                   retireIdx, round, result, residual, exitCode, cpus, cwd>>

\* chunks.splice(0, maxThreads) and chunk.map(buildCommand): every item of the
\* chunk, in chunk order, reads its manifest and spawns its command before
\* the driver awaits; an item whose manifest cannot be read or parsed throws
\* inside the try block and its catch block records it without a spawn
StartChunk ==
    /\ pc = "chunk"
    /\ chunk' = SpliceHead(chunks, maxThreads)[1]
    /\ chunks' = SpliceHead(chunks, maxThreads)[2]
    /\ status' = [f \in DOMAIN status |->
                    IF f \in Range(chunk')
                    THEN (IF Readable(manifest, f) THEN "running" ELSE "failed")
                    ELSE status[f]]
    /\ errors' = errors \o SelectSeq(chunk', LAMBDA f : ~Readable(manifest, f))
    /\ spawns' = [f \in (DOMAIN spawns) \cup
                         {g \in Range(chunk') : Readable(manifest, g)} |->
                    IF f \in DOMAIN spawns THEN spawns[f] ELSE SpawnOptions(f)]
    /\ wave' = [f \in DOMAIN wave |->
                    IF f \in Range(chunk') THEN round ELSE wave[f]]
    /\ pc' = "await"
    /\ UNCHANGED <<manifest, packages, env, maxThreads, processedFiles,
                   packagesCopy, files, deps, uncheck, emptyPackages,
                   retireIdx, round, result, residual, exitCode, cpus, cwd>>

\* mutant: fail-fast, a failing item drops the chunks that have not started
SettleFailFast(file, ok) ==
    /\ pc = "await"
    /\ status[file] = "running"
    /\ status' = [status EXCEPT ![file] = IF ok THEN "ok" ELSE "failed"]
    /\ errors' = IF ok THEN errors ELSE Append(errors, file)
    /\ chunks' = IF ok THEN chunks ELSE <<>>
    /\ UNCHANGED <<manifest, packages, env, pc, maxThreads, processedFiles,
                   packagesCopy, files, deps, uncheck, emptyPackages,
                   chunk, retireIdx, round, wave, result, residual, exitCode, cpus, cwd, spawns>>

\* mutant: a failure replaces the failure list by its own record
SettleKeepsLastOnly(file, ok) ==
    /\ pc = "await"
    /\ status[file] = "running"
    /\ status' = [status EXCEPT ![file] = IF ok THEN "ok" ELSE "failed"]
    /\ errors' = IF ok THEN errors ELSE <<file>>
    /\ UNCHANGED <<manifest, packages, env, pc, maxThreads, processedFiles,
                   packagesCopy, files, deps, uncheck, emptyPackages, chunks,
                   chunk, retireIdx, round, wave, result, residual, exitCode,
                   cpus, cwd, spawns>>

\* mutant: a settling item retires itself from the graph and the remaining set
SettleRetiresItself(file, ok) ==
    /\ pc = "await"
    /\ status[file] = "running"
    /\ status' = [status EXCEPT ![file] = IF ok THEN "ok" ELSE "failed"]
    /\ errors' = IF ok THEN errors ELSE Append(errors, file)
    /\ IF file \in DOMAIN files
       THEN /\ deps' = RemoveFromDeps(deps, files[file])
            /\ packagesCopy' = SpliceOne(packagesCopy, IndexOf(packagesCopy, file))
       ELSE UNCHANGED <<deps, packagesCopy>>
    /\ UNCHANGED <<manifest, packages, env, pc, maxThreads, processedFiles,
                   files, uncheck, emptyPackages, chunks,
                   chunk, retireIdx, round, wave, result, residual, exitCode,
                   cpus, cwd, spawns>>

\* the child process of `file` closes: exit code 0 resolves processSpawn, any
\* other code (or a spawn error) rejects it and the catch block records it
Settle(file, ok) ==
    /\ pc = "await"
    /\ status[file] = "running"
    /\ status' = [status EXCEPT ![file] = IF ok THEN "ok" ELSE "failed"]
    /\ errors' = IF ok THEN errors ELSE Append(errors, file)
    /\ UNCHANGED <<manifest, packages, env, pc, maxThreads, processedFiles,
                   packagesCopy, files, deps, uncheck, emptyPackages, chunks,
                   chunk, retireIdx, round, wave, result, residual, exitCode, cpus, cwd, spawns>>

\* Promise.allSettled resolves; the next chunk, the retire loop or the break
ChunkSettled ==
    /\ pc = "await"
    /\ AllSettled(chunk, status)
    /\ processedFiles' = processedFiles + Len(chunk)
    /\ pc' = IF Len(chunks) > 0 THEN "chunk"
             ELSE AfterChunks(uncheck, emptyPackages, packagesCopy)
    /\ UNCHANGED <<manifest, packages, env, maxThreads, packagesCopy, files, deps,
                   uncheck, errors, emptyPackages, chunks, chunk, retireIdx,
                   status, round, wave, result, residual, exitCode, cpus, cwd, spawns>>

\* mutant: fail-fast retirement, a failed package is not struck from the
\* unresolved sets of its dependents
RetireOneKeepsFailed ==
    /\ pc = "retire"
    /\ LET file == emptyPackages[retireIdx]
           packageName == files[file]
       IN  /\ packagesCopy' = SpliceOne(packagesCopy, IndexOf(packagesCopy, file))
           /\ deps' = IF status[file] = "failed"
                      THEN RemoveFromDepsKeyOnly(deps, packageName)
                      ELSE RemoveFromDeps(deps, packageName)
    /\ retireIdx' = retireIdx + 1
    /\ pc' = IF retireIdx < Len(emptyPackages) THEN "retire"
             ELSE LoopCondition(packagesCopy')
    /\ UNCHANGED <<manifest, packages, env, maxThreads, processedFiles, files,
                   uncheck, errors, emptyPackages, chunks, chunk, status, round,
                   wave, result, residual, exitCode, cpus, cwd, spawns>>

\* mutant: the retire loop leaves the retired file in the remaining list
RetireOneKeepsItem ==
    /\ pc = "retire"
    /\ LET file == emptyPackages[retireIdx]
           packageName == files[file]
       IN  /\ packagesCopy' = packagesCopy
           /\ deps' = RemoveFromDeps(deps, packageName)
    /\ retireIdx' = retireIdx + 1
    /\ pc' = IF retireIdx < Len(emptyPackages) THEN "retire"
             ELSE LoopCondition(packagesCopy')
    /\ UNCHANGED <<manifest, packages, env, maxThreads, processedFiles, files,
                   uncheck, errors, emptyPackages, chunks, chunk, status, round,
                   wave, result, residual, exitCode, cpus, cwd, spawns>>

\* one iteration of `for (const file of emptyPackages)`, and after the last
\* one the loop condition `while (packagesCopy.length > 0)`
RetireOne ==
    /\ pc = "retire"
    /\ LET file == emptyPackages[retireIdx]
           packageName == files[file]
       IN  /\ packagesCopy' = SpliceOne(packagesCopy, IndexOf(packagesCopy, file))
           /\ deps' = RemoveFromDeps(deps, packageName)
    /\ retireIdx' = retireIdx + 1
    /\ pc' = IF retireIdx < Len(emptyPackages) THEN "retire"
             ELSE LoopCondition(packagesCopy')
    /\ UNCHANGED <<manifest, packages, env, maxThreads, processedFiles, files,
                   uncheck, errors, emptyPackages, chunks, chunk, status, round,
                   wave, result, residual, exitCode, cpus, cwd, spawns>>

\* after the loop: the error list or false
Finish ==
    /\ pc = "finish"
    /\ result' = FinalResult(errors)
    /\ pc' = "returned"
    /\ UNCHANGED <<manifest, packages, env, maxThreads, processedFiles,
                   packagesCopy, files, deps, uncheck, errors, emptyPackages,
                   chunks, chunk, retireIdx, status, round, wave, residual,
                   exitCode, cpus, cwd, spawns>>

\* cli.ts: the test of the awaited value and the end of the process
CliExit ==
    /\ pc = "returned"
    /\ exitCode' = CliExitCode(result)
    /\ pc' = "exited"
    /\ UNCHANGED <<manifest, packages, env, maxThreads, processedFiles,
                   packagesCopy, files, deps, uncheck, errors, emptyPackages,
                   chunks, chunk, retireIdx, status, round, wave, result,
                   residual, cpus, cwd, spawns>>

Next ==
    \/ Start
    \/ BeginRound
    \/ StartChunk
    \/ \E file \in Files, ok \in BOOLEAN : file \in DOMAIN status /\ Settle(file, ok)
    \/ ChunkSettled
    \/ RetireOne
    \/ Finish
    \/ CliExit

Spec == Init /\ [][Next]_vars

\* every started command eventually closes and the driver is always scheduled
FairSpec == Spec /\ WF_vars(Next)

DevSpec == InitDev /\ [][Next]_vars

UnreadableSpec == InitUnreadable /\ [][Next]_vars

CpuSpec == InitCpus /\ [][Next]_vars

ExemptionSpec == InitExemption /\ [][Next]_vars

MissingFieldSpec == InitMissingField /\ [][Next]_vars

\* ------------------------------------------- the chdir variant of the driver
\* the earlier text of executePackageCommand / runPackageCommand: no
\* dependency graph, the packages are taken chunk by chunk, and every item
\* changes the working directory of the process before it spawns its command

\* the options of processSpawn in the variant: no cwd
ChdirSpawnOptions == [shell |-> TRUE]

\* child_process.spawn: the child starts in options.cwd, or without that
\* option in the working directory the process has when spawn is called
ChildCwd(options, processCwd) ==
    IF "cwd" \in DOMAIN options THEN options.cwd ELSE processCwd

\* the manifests of the variant: a name, and whether the file can be read
ChdirManifests(n) ==
    {[f \in 1..n |-> [name |-> AllNames[f], dependencies |-> {},
                      devDependencies |-> {}, readable |-> rd[f],
                      hasDependencies |-> TRUE]] :
        rd \in [1..n -> BOOLEAN]}

\* runs of the variant; the package files are absolute paths (cli.ts builds
\* them with path.resolve), so the directory of a file does not depend on
\* the working directory
InitChdir ==
    /\ \E n \in 0..MaxPkgs :
          /\ packages = [i \in 1..n |-> i]
          /\ manifest \in ChdirManifests(n)
          /\ status = [f \in 1..n |-> "idle"]
          /\ wave = [f \in 1..n |-> 0]
    /\ env = [uncheck |-> UncheckAbsent]
    /\ cpus \in HostCpus
    /\ InitLocals

\* runPackageCommand up to its while loop; `const cwd = process.cwd()` saves
\* the start directory
ChdirStart ==
    /\ pc = "start"
    /\ maxThreads' = MaxThreads(cpus)
    /\ packagesCopy' = packages
    /\ pc' = "while"
    /\ UNCHANGED <<manifest, packages, env, processedFiles, files, deps, uncheck,
                   errors, emptyPackages, chunks, chunk, retireIdx, status,
                   round, wave, result, residual, exitCode, cpus, cwd, spawns>>

\* while (packagesCopy.length > 0) { const chunk = packagesCopy.splice(0, maxThreads)
ChdirTakeChunk ==
    /\ pc = "while"
    /\ IF Len(packagesCopy) > 0
       THEN /\ chunk' = SpliceHead(packagesCopy, maxThreads)[1]
            /\ packagesCopy' = SpliceHead(packagesCopy, maxThreads)[2]
            /\ round' = round + 1
            /\ pc' = "map"
       ELSE /\ pc' = "restore"
            /\ UNCHANGED <<chunk, packagesCopy, round>>
    /\ UNCHANGED <<manifest, packages, env, maxThreads, processedFiles, files,
                   deps, uncheck, errors, emptyPackages, chunks, retireIdx,
                   status, wave, result, residual, exitCode, cpus, cwd, spawns>>

\* the next item of chunk.map(buildCommand): the first one not yet called
NextOfChunk == chunk[CHOOSE i \in 1..Len(chunk) :
                        /\ status[chunk[i]] = "idle"
                        /\ \A j \in 1..(i - 1) : status[chunk[j]] # "idle"]

\* the directory the process is in once every item of the chunk has changed it
LastChdir ==
    IF \E g \in Range(chunk) : Readable(manifest, g)
    THEN Dir(chunk[CHOOSE i \in 1..Len(chunk) :
                /\ Readable(manifest, chunk[i])
                /\ \A j \in (i + 1)..Len(chunk) : ~Readable(manifest, chunk[j])])
    ELSE cwd

\* mutant: the item awaits between its chdir and its spawn, so the command
\* starts after every item of the chunk has changed the directory
ChdirExecuteAwaitsBeforeSpawn ==
    /\ pc = "map"
    /\ LET file == NextOfChunk
       IN  /\ IF Readable(manifest, file)
              THEN /\ cwd' = Dir(file)
                   /\ spawns' = [f \in (DOMAIN spawns) \cup {file} |->
                                    IF f \in DOMAIN spawns THEN spawns[f]
                                    ELSE [cwd |-> ChildCwd(ChdirSpawnOptions, LastChdir),
                                          shell |-> ChdirSpawnOptions.shell]]
                   /\ status' = [status EXCEPT ![file] = "running"]
                   /\ UNCHANGED errors
              ELSE /\ errors' = Append(errors, file)
                   /\ status' = [status EXCEPT ![file] = "failed"]
                   /\ UNCHANGED <<cwd, spawns>>
           /\ wave' = [wave EXCEPT ![file] = round]
           /\ pc' = IF \E g \in Range(chunk) \ {file} : status[g] = "idle"
                    THEN "map" ELSE "await"
    /\ UNCHANGED <<manifest, packages, env, maxThreads, processedFiles,
                   packagesCopy, files, deps, uncheck, emptyPackages, chunks,
                   chunk, retireIdx, round, result, residual, exitCode, cpus>>

\* one call of executePackageCommand by chunk.map, up to its first await: the
\* manifest is read (a failure goes to the catch block), process.chdir and
\* the spawn inside processSpawn follow in the same synchronous run, and the
\* child inherits the working directory the process has at that moment
ChdirExecute ==
    /\ pc = "map"
    /\ LET file == NextOfChunk
       IN  /\ IF Readable(manifest, file)
              THEN /\ cwd' = Dir(file)
                   /\ spawns' = [f \in (DOMAIN spawns) \cup {file} |->
                                    IF f \in DOMAIN spawns THEN spawns[f]
                                    ELSE [cwd |-> ChildCwd(ChdirSpawnOptions, cwd'),
                                          shell |-> ChdirSpawnOptions.shell]]
                   /\ status' = [status EXCEPT ![file] = "running"]
                   /\ UNCHANGED errors
              ELSE /\ errors' = Append(errors, file)
                   /\ status' = [status EXCEPT ![file] = "failed"]
                   /\ UNCHANGED <<cwd, spawns>>
           /\ wave' = [wave EXCEPT ![file] = round]
           /\ pc' = IF \E g \in Range(chunk) \ {file} : status[g] = "idle"
                    THEN "map" ELSE "await"
    /\ UNCHANGED <<manifest, packages, env, maxThreads, processedFiles,
                   packagesCopy, files, deps, uncheck, emptyPackages, chunks,
                   chunk, retireIdx, round, result, residual, exitCode, cpus>>

\* await Promise.allSettled(...) resolves; processedFiles += chunk.length
ChdirChunkSettled ==
    /\ pc = "await"
    /\ AllSettled(chunk, status)
    /\ processedFiles' = processedFiles + Len(chunk)
    /\ pc' = "while"
    /\ UNCHANGED <<manifest, packages, env, maxThreads, packagesCopy, files, deps,
                   uncheck, errors, emptyPackages, chunks, chunk, retireIdx,
                   status, round, wave, result, residual, exitCode, cpus, cwd,
                   spawns>>

\* process.chdir(cwd) restores the saved directory; the error list or false
ChdirFinish ==
    /\ pc = "restore"
    /\ cwd' = StartDir
    /\ result' = FinalResult(errors)
    /\ pc' = "returned"
    /\ UNCHANGED <<manifest, packages, env, maxThreads, processedFiles,
                   packagesCopy, files, deps, uncheck, errors, emptyPackages,
                   chunks, chunk, retireIdx, status, round, wave, residual,
                   exitCode, cpus, spawns>>

ChdirNext ==
    \/ ChdirStart
    \/ ChdirTakeChunk
    \/ ChdirExecute
    \/ \E file \in Files, ok \in BOOLEAN : file \in DOMAIN status /\ Settle(file, ok)
    \/ ChdirChunkSettled
    \/ ChdirFinish

ChdirSpec == InitChdir /\ [][ChdirNext]_vars

\* --------------------------------------------------- vocabulary of the claims
Universe == DOMAIN manifest

NameOf(f) == manifest[f].name

\* the in-universe packages that f declares as runtime dependencies
DeclaredDeps(f) == {g \in Universe : NameOf(g) \in manifest[f].dependencies}

\* packages reachable from f along at most k declared dependency edges
RECURSIVE ReachWithin(_, _)
ReachWithin(f, k) ==
    IF k = 0 THEN {}
    ELSE LET prev == ReachWithin(f, k - 1)
         IN  DeclaredDeps(f) \cup prev \cup UNION {DeclaredDeps(g) : g \in prev}

Reach(f) == ReachWithin(f, Cardinality(Universe))

OnCycle(f) == f \in Reach(f)

Acyclic == \A f \in Universe : ~OnCycle(f)

\* a cycle through at least two distinct packages
OnProperCycle(f) == \E g \in Reach(f) : g # f /\ f \in Reach(g)

\* the mode of the run, read from its input
ExemptAll == ProcessUncheck(env.uncheck).all
FullChecking == ~ExemptAll /\ ProcessUncheck(env.uncheck).list = <<>>
ExemptedNames == Range(ProcessUncheck(env.uncheck).list)

Settled(f) == status[f] \in {"ok", "failed"}
Returned == pc \in {"returned", "exited"}
Deadlocked == Returned /\ result = ResultCode(1)
Drained == Returned /\ result.kind \in {"false", "errors"}

\* ----------------------------------------------------------------- claims

\* C1: in a run with full dependency checking over an acyclic graph, every
\* dispatched package was dispatched in a round strictly later than the round
\* of each of its in-universe declared dependencies.
C1_WaveAfterDependencies ==
    (FullChecking /\ Acyclic) =>
        \A f \in Universe : \A g \in DeclaredDeps(f) :
            wave[f] # 0 => (wave[g] # 0 /\ wave[g] < wave[f])

\* C2: with full dependency checking, if the declared graph has a cycle then
\* no package on a cycle is ever dispatched and the run returns the deadlock
\* code.
C2_CycleDeadlocks ==
    (FullChecking /\ \E f \in Universe : OnProperCycle(f)) =>
        /\ \A f \in Universe : OnProperCycle(f) => status[f] = "idle"
        /\ Returned => result = ResultCode(1)

\* C3: when runPackageCommand yields the no-errors value, the CLI process
\* exits with code 0.
C3_SuccessExitsZero ==
    (pc = "exited" /\ result = ResultFalse) => exitCode = 0

\* C4: when an item failed or a deadlock was detected, the CLI process exits
\* with a non-zero code.
C4_FailureExitsNonZero ==
    (pc = "exited" /\ ((\E f \in Universe : status[f] = "failed") \/ Deadlocked))
        => exitCode # 0

\* the state right after the dependency scan of a run that builds a graph
GraphBuilt == pc = "round" /\ round = 0 /\ ~uncheck.all

\* C5 as stated: after graph construction with exempted names E, for distinct
\* P and Q, P is in Q's unresolved set iff Q declares P and P is not in E.
C5_ExemptsDependency ==
    GraphBuilt =>
        \A P \in Universe : \A Q \in Universe \ {P} :
            Includes(deps[NameOf(Q)], NameOf(P)) <=>
                (NameOf(P) \in manifest[Q].dependencies
                    /\ NameOf(P) \notin ExemptedNames)

\* C5 amended: after graph construction with exempted names E (package names
\* unique), for distinct P and Q, P is in Q's unresolved set iff Q declares a
\* runtime dependency on P's name and Q is not in E; whether P is in E does
\* not matter.
C5_ExemptsDependent ==
    GraphBuilt =>
        \A P \in Universe : \A Q \in Universe \ {P} :
            Includes(deps[NameOf(Q)], NameOf(P)) <=>
                (NameOf(P) \in manifest[Q].dependencies
                    /\ NameOf(Q) \notin ExemptedNames)

\* a graph was built where an exempted package is kept as a blocker of a
\* package that is not exempted, and an exempted package lost a declared edge
C5_Witness ==
    /\ GraphBuilt
    /\ \E P \in Universe : \E Q \in Universe \ {P} :
          /\ NameOf(P) \in ExemptedNames
          /\ NameOf(Q) \notin ExemptedNames
          /\ NameOf(P) \in manifest[Q].dependencies
          /\ Includes(deps[NameOf(Q)], NameOf(P))
    /\ \E P \in Universe : \E Q \in Universe \ {P} :
          /\ NameOf(Q) \in ExemptedNames
          /\ NameOf(P) \in manifest[Q].dependencies
          /\ ~Includes(deps[NameOf(Q)], NameOf(P))

\* the package retired by the next iteration of the retire loop
Retiring == files[emptyPackages[retireIdx]]

\* C6: retiring a frontier package X removes the key X, removes the name X
\* from every other unresolved set, and removes no other name from any set.
C6_RetireStrikesOnlyX ==
    [][pc = "retire" =>
        /\ DOMAIN deps' = (DOMAIN deps) \ {Retiring}
        /\ \A q \in (DOMAIN deps) \ {Retiring} :
              deps'[q] = SelectSeq(deps[q], LAMBDA n : n # Retiring)]_vars

\* C7: with full dependency checking, when a package's command starts every
\* in-universe declared dependency of it has already settled.
C7_StartsAfterDependenciesSettle ==
    [][\A f \in Universe :
        (FullChecking /\ status[f] = "idle" /\ status'[f] = "running") =>
            \A g \in DeclaredDeps(f) \ {f} : Settled(g)]_vars

\* C8: for every acyclic declared graph, a dependency-checked run whose
\* commands all settle terminates drained: it returns false or the error list,
\* never the deadlock code, and the remaining set is empty.
C8_AcyclicDrains ==
    (Acyclic /\ ~ExemptAll) ~> (Drained /\ packagesCopy = <<>>)

\* an acyclic universe of several rounds has been drained
C8_Witness ==
    /\ Acyclic /\ ~ExemptAll
    /\ Drained /\ packagesCopy = <<>>
    /\ round >= 3
    /\ \A f \in Universe : Settled(f)

\* a round whose frontier is empty while work remains
NothingReady ==
    /\ Len(packagesCopy) > 0
    /\ \A i \in 1..Len(packagesCopy) : Len(deps[files[packagesCopy[i]]]) > 0

\* C9: in a dependency-checked round where no remaining package is ready,
\* the run returns the deadlock code at once: nothing is dispatched and the
\* failures collected in earlier rounds are not the result; after the deadlock
\* return nothing is dispatched any more.
C9_DeadlockAbortsRun ==
    [][/\ (pc = "round" /\ ~uncheck.all /\ NothingReady) =>
            /\ pc' = "returned"
            /\ result' = ResultCode(1)
            /\ UNCHANGED <<status, wave, errors>>
       /\ Deadlocked => UNCHANGED <<status, wave, result>>]_vars

\* a deadlock was returned although earlier rounds had recorded failures
C9_Witness == Deadlocked /\ Len(errors) > 0 /\ round >= 2

\* the universe {A depends on B, B depends on A} with full checking
TwoCycle ==
    /\ Len(packages) = 2
    /\ manifest[1].name = "A" /\ manifest[1].dependencies = {"B"}
    /\ manifest[2].name = "B" /\ manifest[2].dependencies = {"A"}
    /\ FullChecking

\* C10: for {A depends on B, B depends on A} with full checking the run is
\* deadlocked in its first round, the residual names are exactly {A, B}, and
\* no command is executed.
C10_TwoCycleDeadlocks ==
    TwoCycle =>
        /\ \A f \in Universe : status[f] = "idle" /\ wave[f] = 0
        /\ round <= 1
        /\ pc \in {"start", "round", "returned", "exited"}
        /\ Returned => (result = ResultCode(1) /\ round = 1
                            /\ Range(residual) = {"A", "B"})

C10_Witness == TwoCycle /\ Deadlocked /\ Len(residual) = 2

\* C11: with the exempt-all setting (true or "*"), whatever the manifests
\* declare, no graph is built, the run has exactly one round whose frontier is
\* the full package list, every package is dispatched, and the deadlock code
\* is never returned.
C11_ExemptAllSingleRound ==
    ExemptAll =>
        /\ deps = <<>> /\ files = <<>>
        /\ round <= 1
        /\ ~Deadlocked
        /\ round = 1 => emptyPackages = packages
        /\ Returned => (round = 1 /\ \A f \in Universe : Settled(f) /\ wave[f] = 1)

\* an exempt-all run over a full universe with a declared cycle has returned
C11_Witness ==
    /\ ExemptAll /\ Returned
    /\ Len(packages) = MaxPkgs
    /\ \E f \in Universe : OnProperCycle(f)
    /\ \A f \in Universe : wave[f] = 1

Running == {f \in Universe : status[f] = "running"}

\* C12: at every instant, in every mode, the number of items whose command
\* has started and not yet settled is at most N = maxThreads, and N >= 2.
C12_AtMostNRunning ==
    pc # "start" => (maxThreads >= 2 /\ Cardinality(Running) <= maxThreads)

\* N items are running while a further ready item waits for the next chunk
C12_Witness ==
    /\ Cardinality(Running) = maxThreads
    /\ Len(chunks) > 0

\* C13: a round is a barrier: when an item starts, every item dispatched in
\* an earlier round has settled (succeeded or failed).
C13_RoundBarrier ==
    [][\A f \in Universe :
        (status[f] = "idle" /\ status'[f] = "running") =>
            \A g \in Universe :
                (wave[g] # 0 /\ wave[g] < wave'[f]) => Settled(g)]_vars

\* an item of a later round is running after a failure in an earlier round
C13_Witness ==
    /\ round >= 2
    /\ \E f \in Running : wave[f] = round
    /\ \E g \in Universe : wave[g] # 0 /\ wave[g] < round /\ status[g] = "failed"

\* number of frontier items taken by the chunks before the current one
TakenBefore == Len(emptyPackages) - Len(chunk) - Len(chunks)

\* C14: within a round the frontier is cut into consecutive chunks in
\* frontier order, each of at most N items and each but the last of exactly
\* N items, and when a chunk starts every item of the chunks before it has
\* settled (the items of the chunks after it have not started).
C14_ConsecutiveChunks ==
    pc = "await" =>
        /\ TakenBefore >= 0
        /\ TakenBefore % maxThreads = 0
        /\ Len(chunk) >= 1 /\ Len(chunk) <= maxThreads
        /\ Len(chunks) > 0 => Len(chunk) = maxThreads
        /\ chunk = SubSeq(emptyPackages, TakenBefore + 1, TakenBefore + Len(chunk))
        /\ chunks = SubSeq(emptyPackages, TakenBefore + Len(chunk) + 1,
                           Len(emptyPackages))
        /\ \A i \in 1..TakenBefore : Settled(emptyPackages[i])
        /\ \A f \in Range(chunks) : status[f] = "idle"

\* the second chunk of a round is in flight
C14_Witness ==
    /\ pc = "await"
    /\ TakenBefore = maxThreads
    /\ \E f \in Range(chunk) : status[f] = "running"

\* C15: a failing item cancels nothing: the step in which an item fails
\* changes no other item's status and leaves the chunk and the remaining
\* chunks as they were, and once the chunk loop of a round is over every item
\* of the round's frontier has settled, whatever failed among them.
C15_FailureCancelsNothing ==
    /\ [](pc \notin {"start", "chunk", "await"} =>
            \A f \in Range(emptyPackages) : Settled(f))
    /\ [][\A f \in Universe :
            (status[f] = "running" /\ status'[f] = "failed") =>
                /\ chunks' = chunks /\ chunk' = chunk
                /\ emptyPackages' = emptyPackages
                /\ \A g \in Universe \ {f} : status'[g] = status[g]]_vars

\* the first item of a three-item frontier failed in the first chunk, and its
\* sibling and the item of the later chunk ran to success
C15_Witness ==
    /\ pc = "retire"
    /\ Len(emptyPackages) = 3 /\ maxThreads = 2
    /\ status[emptyPackages[1]] = "failed"
    /\ status[emptyPackages[2]] = "ok"
    /\ status[emptyPackages[3]] = "ok"

\* the chunk loop of round k is over: every frontier item of round k started
RoundDispatched(k) ==
    \/ round > k
    \/ round = k /\ pc \in {"retire", "round", "finish", "returned", "exited"}

\* x failed and every other in-universe dependency of q was dispatched in a
\* round before the round of x: x is the last blocker of q
LastBlockerFailed(x, q) ==
    /\ status[x] = "failed"
    /\ x \in DeclaredDeps(q)
    /\ \A g \in DeclaredDeps(q) \ {x} : wave[g] # 0 /\ wave[g] < wave[x]

\* C16: a failed package is retired like a successful one: the retire step of
\* a failed package X strikes X from every unresolved set, and a package
\* whose last blocker X failed in round W has been dispatched once the
\* frontier of round W + 1 has been dispatched.
C16_FailedBlockerReleases ==
    /\ [](\A x \in Universe : \A q \in Universe \ {x} :
            (LastBlockerFailed(x, q) /\ RoundDispatched(wave[x] + 1)) =>
                (wave[q] # 0 /\ wave[q] <= wave[x] + 1))
    /\ [][(pc = "retire" /\ status[emptyPackages[retireIdx]] = "failed") =>
            \A k \in DOMAIN deps' : ~Includes(deps'[k], Retiring)]_vars

\* the only dependency of q failed in round W and q ran in round W + 1
C16_Witness ==
    \E x \in Universe : \E q \in Universe \ {x} :
        /\ DeclaredDeps(q) = {x}
        /\ ~ExemptAll /\ NameOf(q) \notin ExemptedNames
        /\ LastBlockerFailed(x, q)
        /\ RoundDispatched(wave[x] + 1)
        /\ Settled(q)
        /\ wave[q] = wave[x] + 1

\* C17: a package never stands in its own unresolved set, and a universe
\* whose only cycles are self-dependencies does not end deadlocked.
C17_SelfEdgeIgnored ==
    /\ \A k \in DOMAIN deps : ~Includes(deps[k], k)
    /\ (\A f \in Universe : ~OnProperCycle(f)) => ~Deadlocked

UniverseNames == {NameOf(f) : f \in Universe}

\* the manifests with every dependency outside the universe taken out
InUniverseOnly ==
    [f \in Universe |->
        [manifest[f] EXCEPT !.dependencies = @ \cap UniverseNames]]

DeclaresOutsider(f) == manifest[f].dependencies \ UniverseNames # {}

\* C18: a declared dependency that names no manifest of the universe is in no
\* unresolved set; the graph built is the graph of the manifests without such
\* names, and a universe whose packages have no in-universe dependency is
\* dispatched whole in round 1 and never deadlocked.
C18_OutsidersIgnored ==
    /\ \A k \in DOMAIN deps : Range(deps[k]) \subseteq UniverseNames
    /\ GraphBuilt => deps = ScanDeps(InUniverseOnly, uncheck, packages, <<>>, 1)
    /\ (~ExemptAll /\ \A f \in Universe : DeclaredDeps(f) = {}) =>
            /\ ~Deadlocked
            /\ RoundDispatched(1) => \A f \in Universe : wave[f] = 1

\* every package of the universe declares only an outsider, nothing is
\* exempted, and the run drained in one round
C18_Witness ==
    /\ Len(packages) = MaxPkgs - 1
    /\ FullChecking
    /\ \A f \in Universe : DeclaresOutsider(f) /\ DeclaredDeps(f) = {}
    /\ Drained
    /\ \A f \in Universe : wave[f] = 1

\* g is named in the devDependencies of f and not in its dependencies
DevOnly(f, g) ==
    /\ NameOf(g) \in manifest[f].devDependencies
    /\ NameOf(g) \notin manifest[f].dependencies

\* C19: only the dependencies field creates edges: a package named only in
\* the devDependencies of f is never in the unresolved set of f, and a
\* package without in-universe runtime dependencies is dispatched in round 1
\* whatever its devDependencies name.
C19_DevDependenciesIgnored ==
    /\ \A f \in Universe : \A g \in Universe :
            (DevOnly(f, g) /\ NameOf(f) \in DOMAIN deps) =>
                ~Includes(deps[NameOf(f)], NameOf(g))
    /\ \A f \in Universe :
            (DeclaredDeps(f) = {} /\ RoundDispatched(1)) => wave[f] = 1

\* a package whose only declaration is a development dependency on a package
\* of the universe ran in round 1, together with that package
C19_Witness ==
    \E f \in Universe : \E g \in Universe \ {f} :
        /\ DevOnly(f, g)
        /\ manifest[f].dependencies = {}
        /\ Drained
        /\ wave[f] = 1 /\ wave[g] = 1

\* the universe {A, B depending on A, C} checked in full with N = 2
Scenario21 ==
    /\ Len(packages) = 3
    /\ manifest[1].dependencies = {}
    /\ manifest[2].dependencies = {"A"}
    /\ manifest[3].dependencies = {}
    /\ FullChecking
    /\ pc # "start" /\ maxThreads = 2

\* C21: for {A, B depending on A, C}, N = 2 and full checking the run has
\* exactly two rounds, round 1 dispatches exactly {A, C} and round 2 exactly
\* {B}, the run drains, and when all three succeed the result is false.
C21_ThreePackageScenario ==
    Scenario21 =>
        /\ round <= 2
        /\ wave[1] \in {0, 1} /\ wave[3] \in {0, 1} /\ wave[2] \in {0, 2}
        /\ RoundDispatched(1) => (wave[1] = 1 /\ wave[3] = 1)
        /\ RoundDispatched(2) => wave[2] = 2
        /\ round >= 1 => emptyPackages = (IF round = 1 THEN <<1, 3>> ELSE <<2>>)
        /\ Returned =>
              /\ round = 2 /\ Drained
              /\ (\A f \in Universe : status[f] = "ok") => result = ResultFalse

\* the scenario has returned false after three successes
C21_Witness ==
    /\ Scenario21
    /\ Returned
    /\ \A f \in Universe : status[f] = "ok"
    /\ result = ResultFalse
    /\ wave = <<1, 2, 1>>

Dispatched(f) == wave[f] # 0

\* C22: no exception leaves the dispatcher: once an item has been dispatched
\* the run is never rejected, a dispatched item is running or settled, an item
\* is failed exactly when the failure list holds its record (whether its
\* manifest could not be read or its command failed), and the driver leaves
\* the wait of a chunk only to go on with the round.
C22_NoExceptionEscapes ==
    /\ [](/\ (\E f \in Universe : Dispatched(f)) => result.kind # "rejected"
          /\ \A f \in Universe :
                /\ Dispatched(f) <=> status[f] \in {"running", "ok", "failed"}
                /\ status[f] = "failed" <=> Includes(errors, f)
          /\ pc = "await" =>
                \/ \E f \in Range(chunk) : status[f] = "running"
                \/ AllSettled(chunk, status))
    /\ [][pc = "await" => pc' \in {"await", "chunk", "retire", "round", "finish"}]_vars

\* one item failed on its unreadable manifest, another on its command, and
\* the run went on to return the two records
C22_Witness ==
    /\ Drained
    /\ \E f \in Universe : \E g \in Universe :
          /\ ~Readable(manifest, f) /\ status[f] = "failed"
          /\ Readable(manifest, g) /\ status[g] = "failed"
          /\ result = ResultErrors(errors)
          /\ Includes(errors, f) /\ Includes(errors, g)

Failed == {f \in Universe : status[f] = "failed"}

\* C23: a drained run returns false exactly when no dispatched item failed,
\* and otherwise a non-empty list that holds one record for every failed
\* item and nothing else.
C23_DrainedResult ==
    Drained =>
        /\ result = ResultFalse <=> Failed = {}
        /\ Failed # {} =>
              /\ result.kind = "errors"
              /\ Len(result.errors) = Cardinality(Failed)
              /\ Range(result.errors) = Failed

\* a drained run returned the records of two failed items, a third succeeded
C23_Witness ==
    /\ Drained
    /\ Cardinality(Failed) = 2
    /\ Len(result.errors) = 2
    /\ \E f \in Universe : status[f] = "ok"

\* the items that fail in a step
NewlyFailed == {f \in Universe : status[f] # "failed" /\ status'[f] = "failed"}

\* C24: the failure list only grows: every step keeps the records it holds,
\* in place, and appends exactly one record for each item that fails in the
\* step, so none when an item succeeds.
C24_FailuresAccumulate ==
    [][/\ Len(errors') = Len(errors) + Cardinality(NewlyFailed)
       /\ SubSeq(errors', 1, Len(errors)) = errors
       /\ \A i \in (Len(errors) + 1)..Len(errors') : errors'[i] \in NewlyFailed]_vars

\* the list holds records of two different rounds
C24_Witness ==
    /\ Len(errors) >= 2
    /\ wave[errors[1]] # wave[errors[2]]
    /\ \E f \in Universe : status[f] = "ok"

\* half of c rounded up, stated without the division
HalfUp(c) == CHOOSE k \in 0..(c + 1) : 2 * k = c \/ 2 * k = c + 1

\* C25: N is max(round(c / 2), 2) with halves rounded up, so N >= 2 for every
\* CPU count c >= 0; N is computed once, never changes afterwards, and bounds
\* every chunk of every round.
C25_ConcurrencyLimit ==
    /\ [](pc # "start" =>
            /\ maxThreads = (IF HalfUp(cpus) > 2 THEN HalfUp(cpus) ELSE 2)
            /\ maxThreads >= 2
            /\ Len(chunk) <= maxThreads)
    /\ [][pc # "start" => (maxThreads' = maxThreads /\ cpus' = cpus)]_vars

\* on a host of 5 CPUs a chunk of N = 3 items is in flight
C25_Witness ==
    /\ cpus = 5 /\ maxThreads = 3
    /\ pc = "await" /\ Len(chunk) = 3

\* C26: the dependency graph, the alias map and the remaining set change only
\* in steps of the driver taken while no item is running (the scan and the
\* retire loop); from the start of a chunk to the settlement of its last item
\* they stay as they are, and the settlement of an item writes none of them.
C26_GraphChangesBetweenChunks ==
    [][/\ (deps' # deps \/ packagesCopy' # packagesCopy \/ files' # files) =>
              (pc \in {"start", "retire"} /\ Running = {})
       /\ (Running # {} \/ pc \in {"chunk", "await"}) =>
              (deps' = deps /\ packagesCopy' = packagesCopy /\ files' = files)]_vars

\* an item of the chunk in flight has settled, a sibling is still running,
\* and the graph still holds the settled item
C26_Witness ==
    /\ pc = "await" /\ ~ExemptAll
    /\ \E f \in Range(chunk) : \E g \in Range(chunk) :
          /\ status[f] = "running"
          /\ status[g] = "ok"
          /\ files[g] \in DOMAIN deps
          /\ Includes(packagesCopy, g)

SomeUnreadable == \E f \in Universe : ~Readable(manifest, f)

\* C27: in a run that builds the graph, an unreadable or unparsable manifest
\* makes the whole run reject during the scan: nothing is dispatched, no
\* command is spawned, no round begins and no failure record is produced.
C27_ScanFailureIsFatal ==
    (~ExemptAll /\ SomeUnreadable /\ pc # "start") =>
        /\ Returned
        /\ result = ResultRejected
        /\ round = 0
        /\ \A f \in Universe : ~Dispatched(f) /\ status[f] = "idle"
        /\ spawns = <<>>
        /\ errors = <<>>

\* a run over three manifests of which the last cannot be read was rejected
C27_Witness ==
    /\ ~ExemptAll
    /\ Len(packages) = 3
    /\ Readable(manifest, 1) /\ Readable(manifest, 2) /\ ~Readable(manifest, 3)
    /\ Returned /\ result = ResultRejected

\* number of records of file f in the failure list
Records(f) == Cardinality({i \in 1..Len(errors) : errors[i] = f})

\* C28: an item whose manifest cannot be parsed when it is dispatched is
\* recorded as one failure and its command is never spawned; in exempt-all
\* mode every other item of the run is dispatched all the same, the readable
\* ones with a spawn in their own directory.
C28_UnreadableItemRecorded ==
    /\ \A f \in Universe : ~Readable(manifest, f) =>
          /\ f \notin DOMAIN spawns
          /\ status[f] \in {"idle", "failed"}
          /\ Dispatched(f) => (status[f] = "failed" /\ Records(f) = 1)
    /\ (ExemptAll /\ Returned) =>
          \A g \in Universe :
              /\ Dispatched(g)
              /\ Readable(manifest, g) =>
                    (g \in DOMAIN spawns /\ spawns[g] = SpawnOptions(g))

\* an exempt-all run over three items, the first with an unparsable manifest,
\* returned that one record; the two others were spawned and succeeded
C28_Witness ==
    /\ ExemptAll /\ Returned
    /\ Len(packages) = 3
    /\ ~Readable(manifest, 1)
    /\ errors = <<1>>
    /\ DOMAIN spawns = {2, 3}
    /\ status[2] = "ok" /\ status[3] = "ok"

\* C29: dispatching never changes the working directory of the runner
\* process: it is the start directory in every state, no step changes it, and
\* every command is spawned with the directory of its own manifest as the cwd
\* option of the call.
C29_WorkingDirectoryUntouched ==
    /\ [](/\ cwd = StartDir
          /\ \A f \in DOMAIN spawns : spawns[f].cwd = Dir(f) /\ spawns[f].cwd # cwd)
    /\ [][cwd' = cwd]_vars

\* a run of two rounds has returned after spawning three commands, each in
\* its own directory
C29_Witness ==
    /\ Returned /\ round >= 2
    /\ DOMAIN spawns = {1, 2, 3}
    /\ cwd = StartDir

\* the string made of a sequence of characters
RECURSIVE StringOf(_)
StringOf(cs) == IF cs = <<>> THEN "" ELSE Head(cs) \o StringOf(Tail(cs))

\* positions of the commas of the exemption string, with a sentinel at each end
CommaAt == {0, Len(env.uncheck.chars) + 1}
               \cup {i \in 1..Len(env.uncheck.chars) : env.uncheck.chars[i] = ","}

\* the j-th comma position counted from the sentinel 0 (j = 0 is the sentinel)
Comma(j) == CHOOSE i \in CommaAt : Cardinality({k \in CommaAt : k < i}) = j

\* the characters between the (j-1)-th and the j-th comma
PartAt(j) == SubSeq(env.uncheck.chars, Comma(j - 1) + 1, Comma(j) - 1)

\* C30: true and the string '*' mean exempt-all; any other string means the
\* list of the parts between its commas; an absent value or another
\* non-string value means full checking with nothing exempted.
C30_ExemptionInterpretation ==
    pc # "start" =>
        /\ uncheck.all <=>
              \/ env.uncheck.kind = "true"
              \/ env.uncheck.kind = "string" /\ env.uncheck.chars = <<"*">>
        /\ uncheck.all => uncheck.list = <<>>
        /\ (env.uncheck.kind = "string" /\ ~uncheck.all) =>
              /\ Len(uncheck.list) = Cardinality(CommaAt) - 1
              /\ \A j \in 1..Len(uncheck.list) : uncheck.list[j] = StringOf(PartAt(j))
        /\ env.uncheck.kind \in {"absent", "other"} =>
              uncheck = [all |-> FALSE, list |-> <<>>]

\* --uncheck=B,* is a list of two names, not exempt-all: B runs in round 1
\* and C still waits
C30_Witness ==
    /\ env.uncheck = UncheckString(<<"B", ",", "*">>)
    /\ uncheck = [all |-> FALSE, list |-> <<"B", "*">>]
    /\ Len(packages) = 3
    /\ Returned
    /\ wave[2] = 1 /\ wave[3] > 1

\* C31: no work item is dispatched twice: an item is dispatched only from
\* idle, its round is set once, and the count of processed items is the
\* number of dispatched items; when the run has drained, or has returned in
\* exempt-all mode, every item of the input list has been dispatched.
C31_EachItemOnce ==
    /\ [][\A f \in Universe :
            /\ wave'[f] # wave[f] => (wave[f] = 0 /\ status[f] = "idle")
            /\ (status'[f] # status[f] /\ status[f] # "running") => status[f] = "idle"
            /\ status'[f] = "idle" => status[f] = "idle"]_vars
    /\ []((pc \notin {"start", "await"}) =>
            processedFiles = Cardinality({f \in Universe : Dispatched(f)}))
    /\ []((Drained \/ (ExemptAll /\ Returned)) =>
            /\ \A f \in Universe : Dispatched(f) /\ Settled(f)
            /\ processedFiles = Len(packages)
            /\ packagesCopy = <<>> \/ ExemptAll)

\* a checked run of three rounds drained: each of the three items was
\* dispatched in its own round
C31_Witness ==
    /\ Drained /\ ~ExemptAll
    /\ Len(packages) = 3
    /\ wave = <<1, 2, 3>>
    /\ processedFiles = 3

\* the rounds run so far: the passes of the do-while body that dispatched a
\* batch (the pass that finds nothing ready dispatches nothing)
RoundsRun == IF round > 0 /\ emptyPackages = <<>> THEN round - 1 ELSE round

\* C32: whatever the declared graph, the run ends drained or deadlocked after
\* at most as many rounds as there are packages when every command settles:
\* the remaining list never grows, every pass of a checked run that is not
\* the deadlock pass retires at least one item, and the run returns.
C32_AtMostNRounds ==
    /\ [](RoundsRun <= Len(packages))
    /\ [](Len(packages) > 0 => round <= Len(packages))
    /\ []((~ExemptAll /\ pc = "round") =>
            Len(packagesCopy) <= Len(packages) - round)
    /\ [][pc # "start" =>
            /\ Len(packagesCopy') <= Len(packagesCopy)
            /\ Range(packagesCopy') \subseteq Range(packagesCopy)]_vars
    /\ [][(pc = "round" /\ ~ExemptAll /\ packagesCopy # <<>>
              /\ pc' # "returned") => emptyPackages' # <<>>]_vars
    /\ [](Returned => (Drained \/ Deadlocked))
    /\ <>Returned

\* a cyclic universe of three packages deadlocks after two rounds, and an
\* acyclic chain drains after three
C32_Witness ==
    /\ Len(packages) = 3 /\ ~ExemptAll
    /\ \/ Deadlocked /\ RoundsRun = 2 /\ Len(packagesCopy) = 1
       \/ Drained /\ RoundsRun = 3 /\ packagesCopy = <<>>

\* the work items still in the remaining list
Remaining == Range(packagesCopy)

\* C33: at the start of every round of a dependency-checked run over packages
\* with unique names, the keys of the graph are exactly the names of the
\* remaining items, and every unresolved set holds only names of remaining
\* packages that its owner declares as runtime dependencies.
C33_GraphMatchesRemaining ==
    (pc = "round" /\ ~uncheck.all) =>
        /\ DOMAIN deps = {NameOf(f) : f \in Remaining}
        /\ \A f \in Remaining :
                /\ files[f] = NameOf(f)
                /\ Range(deps[NameOf(f)]) \subseteq
                        {NameOf(g) : g \in Remaining \cap DeclaredDeps(f)}

\* the second round starts with two items left, one still waiting for the
\* other
C33_Witness ==
    /\ pc = "round" /\ ~uncheck.all /\ round = 1
    /\ Len(packagesCopy) = 2
    /\ \E f \in Remaining : deps[NameOf(f)] # <<>>
    /\ \E f \in Remaining : deps[NameOf(f)] = <<>>

\* the packages named by the processed exemption list (empty before it is
\* processed and in exempt-all mode)
Exempted == {f \in Universe : ~uncheck.all /\ Includes(uncheck.list, NameOf(f))}

\* C34: with a comma-separated exemption list, a package whose own name is
\* listed has an empty unresolved set after graph construction and is
\* dispatched in the first round whatever it declares, while every package
\* not listed that declares it is dispatched only in a later round, after it
\* has settled.
C34_ExemptedRunsFirst ==
    \A P \in Exempted :
        /\ GraphBuilt => deps[NameOf(P)] = <<>>
        /\ (round = 1 /\ pc # "round") => Includes(emptyPackages, P)
        /\ RoundDispatched(1) => wave[P] = 1
        /\ \A Q \in (Universe \ Exempted) \ {P} :
                NameOf(P) \in manifest[Q].dependencies =>
                    /\ GraphBuilt => Includes(deps[NameOf(Q)], NameOf(P))
                    /\ Dispatched(Q) => (wave[Q] > 1 /\ Settled(P))

\* B is listed and declares C; A, not listed, declares B: B ran in round 1
\* before C, and A ran after B
C34_Witness ==
    /\ Len(packages) = 3
    /\ ExemptedNames = {"B"} /\ ~ExemptAll
    /\ "C" \in manifest[2].dependencies
    /\ "B" \in manifest[1].dependencies
    /\ Returned
    /\ wave[2] = 1 /\ wave[1] > 1 /\ wave[3] >= 1

\* the work items never dispatched
NeverDispatched == {f \in Universe : ~Dispatched(f)}

\* C35: when a run ends deadlocked, the names reported are exactly those of
\* the work items never dispatched in the run, each of them has a non-empty
\* unresolved set at that moment, and nothing is dispatched afterwards.
C35_ResidualIsUndispatched ==
    /\ [](Deadlocked =>
            /\ Range(residual) = {NameOf(f) : f \in NeverDispatched}
            /\ Len(residual) = Cardinality(NeverDispatched)
            /\ NeverDispatched = Remaining
            /\ \A f \in NeverDispatched :
                    /\ NameOf(f) \in DOMAIN deps
                    /\ deps[NameOf(f)] # <<>>)
    /\ [][Deadlocked =>
            (wave' = wave /\ status' = status /\ spawns' = spawns
                /\ processedFiles' = processedFiles)]_vars

\* a run that dispatched one package and then deadlocked on the two others
C35_Witness ==
    /\ Deadlocked /\ pc = "exited"
    /\ Len(packages) = 3 /\ round = 2
    /\ Cardinality(NeverDispatched) = 2
    /\ Len(residual) = 2

\* C36: a run over an empty package list, dependency-checked or exempt-all,
\* dispatches nothing, does not report a deadlock, and returns the no-errors
\* result: its only pass goes from the loop head to the end of the loop.
C36_EmptyListReturnsFalse ==
    Len(packages) = 0 =>
        /\ pc \in {"start", "round", "finish", "returned", "exited"}
        /\ processedFiles = 0 /\ spawns = <<>> /\ errors = <<>>
        /\ residual = <<>> /\ round <= 1
        /\ result \in {NoResult, ResultFalse}
        /\ Returned => (result = ResultFalse /\ ~Deadlocked /\ round = 1)

\* the dependency-checked run over no package has returned false
C36_Witness ==
    /\ Len(packages) = 0 /\ ~ExemptAll
    /\ Returned /\ result = ResultFalse /\ round = 1

\* the exempt-all run over no package has returned false
C36_WitnessExemptAll ==
    /\ Len(packages) = 0 /\ ExemptAll
    /\ Returned /\ result = ResultFalse /\ round = 1

\* the manifest of f has no `dependencies` field
MissingField(f) == ~manifest[f].hasDependencies

\* C37: a manifest without a dependencies field declares no dependencies:
\* graph construction completes without error, the package has an empty
\* unresolved set, and it is dispatched in the first round.
C37_MissingFieldMeansNoDeps ==
    \A f \in Universe :
        (MissingField(f) /\ pc # "start" /\ ~uncheck.all) =>
            /\ result # ResultRejected
            /\ GraphBuilt => deps[NameOf(f)] = <<>>
            /\ RoundDispatched(1) => wave[f] = 1

\* what the scan does instead: in a dependency-checked run the scan rejects
\* exactly when a package that is not exempted lacks the field, and then
\* nothing is dispatched; a package that lacks the field and is exempted has
\* an empty unresolved set and runs in the first round.
C37_MissingFieldRejects ==
    (pc # "start" /\ ~uncheck.all) =>
        /\ result = ResultRejected <=>
                \E f \in Universe \ Exempted : MissingField(f)
        /\ result = ResultRejected =>
                (processedFiles = 0 /\ spawns = <<>> /\ round = 0)
        /\ \A f \in Exempted :
                (MissingField(f) /\ result # ResultRejected) =>
                    /\ GraphBuilt => deps[NameOf(f)] = <<>>
                    /\ RoundDispatched(1) => wave[f] = 1

\* the run over the single package A, whose manifest has no dependencies
\* field, without --uncheck: the promise of runPackageCommand is rejected
C37_Witness ==
    /\ Len(packages) = 1 /\ MissingField(1)
    /\ env.uncheck = UncheckAbsent
    /\ pc = "exited" /\ result = ResultRejected
    /\ wave[1] = 0

\* a command is spawned for f by the step
Spawning(f) == f \notin DOMAIN spawns /\ f \in DOMAIN spawns'

\* C38: in the chdir variant, whatever the order in which the commands of a
\* chunk close, every command is spawned while the working directory of the
\* process is the directory of its own manifest: a step spawns one command
\* and leaves the process in that command's directory, and the directory
\* changes only in the step that spawns or when it is restored at the end.
C38_SpawnedInOwnDirectory ==
    /\ [](\A f \in DOMAIN spawns : spawns[f].cwd = Dir(f))
    /\ [][\A f \in Universe : Spawning(f) =>
            /\ cwd' = Dir(f)
            /\ spawns'[f].cwd = cwd'
            /\ \A g \in Universe \ {f} : ~Spawning(g)]_vars
    /\ [][cwd' # cwd =>
            \/ \E f \in Universe : Spawning(f) /\ cwd' = Dir(f)
            \/ pc = "restore" /\ cwd' = StartDir]_vars

\* a chunk of two commands was spawned, the second closed before the first,
\* a second chunk followed, and the run has returned
C38_Witness ==
    /\ pc = "returned" /\ cwd = StartDir
    /\ Len(packages) = 3 /\ maxThreads = 2 /\ round = 2
    /\ DOMAIN spawns = {1, 2, 3}
    /\ errors = <<2, 1>>

====
